---- MODULE Spec2Model ----
(***************************************************************************)
(* Concurrency-control layer of virtual-lab-irk-be.                        *)
(*                                                                         *)
(*   - KeyedMutex (src/src/lib/queue.ts): per-key promise chaining.        *)
(*   - PUT /tasks/:id (auto-merge through taskMutex).                      *)
(*   - PUT /users/:id and PUT /events/:id (strict OCC in a transaction).   *)
(*                                                                         *)
(* One step of the model is one synchronous run of JavaScript between two  *)
(* awaits, or one statement executed by the database.                      *)
(***************************************************************************)
EXTENDS Integers, Sequences, FiniteSets, TLC

VARIABLES
  locks,     \* KeyedMutex.locks of each instance: key -> slot (or NoLock)
  resolved,  \* the nextLock promises that have been resolved
  calls,     \* every invocation of run, in the order run was entered
  started,   \* ids of the calls in the order their fn was invoked
  db,        \* the persistent store: table -> id -> row (or NoRow)
  reqs       \* the HTTP requests, in order of arrival

vars == <<locks, resolved, calls, started, db, reqs>>

(***************************************************************************)
(* Bounds of the model.                                                    *)
(***************************************************************************)
MaxCalls == 3      \* invocations of run in the KeyedMutex specification
MaxReqs == 3       \* HTTP requests in the store specification

(***************************************************************************)
(* KeyedMutex: src/src/lib/queue.ts                                        *)
(***************************************************************************)
Mutexes == {"taskMutex", "eventMutex"}
Keys == {"", "task-1"}

\* A map entry that is absent (Map.get gives undefined).
NoLock == 0
\* Promise.resolve(): the already-resolved promise used when no entry exists.
ResolvedPromise == -1

\* An absent row (findUnique gives null).
NoRow == [none |-> TRUE]

Pending == [state |-> "pending"]
Fulfilled(v) == [state |-> "fulfilled", value |-> v]
Rejected(e) == [state |-> "rejected", error |-> e]

\* What a generic operation may produce, and what it may throw.
OpValues == {"completed", "undefined", "null"}
OpErrors == {"Error", "string error"}

CallIds == 1..Len(calls)

\* The promise a slot id stands for is resolved.
IsResolved(p) == p = ResolvedPromise \/ p \in resolved

EmptyLocks == [m \in Mutexes |-> [k \in Keys |-> NoLock]]

\* Faulty variants of CurrentLock: one that never waits for the entry, and
\* one that waits for the newest slot of any key of the instance.
CurrentLockNeverWaits(m, key) == ResolvedPromise

CurrentLockAnyKey(m, key) ==
  LET busy == {locks[m][k] : k \in Keys} \ {NoLock} IN
  IF busy = {} THEN ResolvedPromise
  ELSE CHOOSE p \in busy : \A q \in busy : q <= p

\* Faulty variant of CurrentLock: one lock map shared by all instances (a
\* static field), so a key's newest slot of any instance is waited for.
CurrentLockSharedMap(m, key) ==
  LET busy == {locks[x][key] : x \in Mutexes} \ {NoLock} IN
  IF busy = {} THEN ResolvedPromise
  ELSE CHOOSE p \in busy : \A q \in busy : q <= p

\* line 5: this.locks.get(key) || Promise.resolve()
CurrentLock(m, key) ==
  IF locks[m][key] = NoLock THEN ResolvedPromise ELSE locks[m][key]

\* Faulty variant of RunEnter: the entry is read before the previous caller
\* has installed its slot (an await between lines 5 and 12), so the new call
\* waits for what the previous caller waited for.
RunEnterStaleRead(m, key, fn) ==
  LET c == Len(calls) + 1 IN
  /\ calls' = Append(calls,
       [mutex |-> m, key |-> key,
        currentLock |-> IF locks[m][key] = NoLock THEN ResolvedPromise
                        ELSE calls[locks[m][key]].currentLock,
        pc |-> "awaitLock", fn |-> fn, at |-> "",
        outcome |-> Pending, result |-> Pending])
  /\ locks' = [locks EXCEPT ![m][key] = c]

\* lines 4-15: the synchronous part of run, up to its first await.
\* The new call's id names its nextLock promise.
RunEnter(m, key, fn) ==
  LET c == Len(calls) + 1 IN
  /\ calls' = Append(calls,
       [mutex |-> m, key |-> key, currentLock |-> CurrentLock(m, key),
        pc |-> "awaitLock", fn |-> fn, at |-> "",
        outcome |-> Pending, result |-> Pending])
  /\ locks' = [locks EXCEPT ![m][key] = c]

\* lines 15-16: currentLock is resolved, run resumes and invokes fn.
CanStart(c) == calls[c].pc = "awaitLock" /\ IsResolved(calls[c].currentLock)

RunStart(c) ==
  /\ CanStart(c)
  /\ calls' = [calls EXCEPT ![c].pc = "inFn", ![c].at = "entry"]
  /\ started' = Append(started, c)

\* Faulty variant of ReleaseEntry: the entry is never deleted.
ReleaseEntryNever(lk, c) == lk

\* Faulty variant of ReleaseEntry: the exiting call clears the whole map of
\* its instance when its own slot is the entry of its key.
ReleaseEntryClearsMap(lk, c) ==
  IF lk[calls[c].mutex][calls[c].key] = c
    THEN [lk EXCEPT ![calls[c].mutex] = [k \in Keys |-> NoLock]]
    ELSE lk

\* Faulty variant of ReleaseEntry: delete by key alone.
ReleaseEntryByKey(lk, c) ==
  [lk EXCEPT ![calls[c].mutex][calls[c].key] = NoLock]

\* lines 19-21: delete the entry only if it is still this call's slot.
ReleaseEntry(lk, c) ==
  [lk EXCEPT ![calls[c].mutex][calls[c].key] =
     IF @ = c THEN NoLock ELSE @]

\* line 18: resolveNext()
ResolveNext(c) == resolved \cup {c}

\* Faulty variant of RunFinally: the release is skipped when fn throws
\* (the release written after the await instead of in a finally block).
RunReleaseOnSuccessOnly(c) ==
  /\ calls[c].pc = "fnSettled"
  /\ resolved' = IF calls[c].outcome.state = "fulfilled"
                    THEN ResolveNext(c) ELSE resolved
  /\ locks' = IF calls[c].outcome.state = "fulfilled"
                 THEN ReleaseEntry(locks, c) ELSE locks
  /\ calls' = [calls EXCEPT ![c].pc = "done", ![c].result = calls[c].outcome]

\* Faulty variant of RunFinally: a failure is swallowed (try/catch instead
\* of try/finally), the caller gets undefined.
RunSwallowsFailure(c) ==
  /\ calls[c].pc = "fnSettled"
  /\ resolved' = ResolveNext(c)
  /\ locks' = ReleaseEntry(locks, c)
  /\ calls' = [calls EXCEPT ![c].pc = "done",
                ![c].result = IF calls[c].outcome.state = "rejected"
                                THEN Fulfilled("undefined")
                                ELSE calls[c].outcome]

\* Faulty variant of RunFinally: a failed operation is invoked again instead
\* of the failure being passed on.
RunRetriesAfterFailure(c) ==
  /\ calls[c].pc = "fnSettled"
  /\ IF calls[c].outcome.state = "rejected"
       THEN /\ calls' = [calls EXCEPT ![c].pc = "inFn", ![c].at = "entry",
                                      ![c].outcome = Pending]
            /\ UNCHANGED <<resolved, locks>>
       ELSE /\ resolved' = ResolveNext(c)
            /\ locks' = ReleaseEntry(locks, c)
            /\ calls' = [calls EXCEPT ![c].pc = "done",
                                      ![c].result = calls[c].outcome]

\* lines 16-22: fn has settled; finally runs, then run settles as fn did.
RunFinally(c) ==
  /\ calls[c].pc = "fnSettled"
  /\ resolved' = ResolveNext(c)
  /\ locks' = ReleaseEntry(locks, c)
  /\ calls' = [calls EXCEPT ![c].pc = "done", ![c].result = calls[c].outcome]

\* Faulty variant of getActiveLocksCount: the calls of run not yet completed.
getActiveLocksCountPerCall(m) ==
  Cardinality({c \in CallIds : calls[c].mutex = m /\ calls[c].pc # "done"})

\* line 25-27 and 29-31
isLocked(m, key) == locks[m][key] # NoLock
getActiveLocksCount(m) == Cardinality({k \in Keys : locks[m][k] # NoLock})

(***************************************************************************)
(* A generic operation passed to run: it awaits I/O any number of times    *)
(* (entry -> io -> entry ...) and then returns a value or throws.          *)
(***************************************************************************)
GenericFn == [kind |-> "op"]

OpOutcomes == {Fulfilled(v) : v \in OpValues} \cup {Rejected(e) : e \in OpErrors}

\* The operation reaches an await and suspends.
OpSuspend(c) ==
  /\ calls[c].pc = "inFn"
  /\ calls[c].fn.kind = "op"
  /\ calls[c].at = "entry"
  /\ calls' = [calls EXCEPT ![c].at = "io"]
  /\ UNCHANGED <<locks, resolved, started, db, reqs>>

\* The awaited I/O completes and the operation runs again.
OpResume(c) ==
  /\ calls[c].pc = "inFn"
  /\ calls[c].fn.kind = "op"
  /\ calls[c].at = "io"
  /\ calls' = [calls EXCEPT ![c].at = "entry"]
  /\ UNCHANGED <<locks, resolved, started, db, reqs>>

\* The operation returns or throws.
OpSettle(c, o) ==
  /\ calls[c].pc = "inFn"
  /\ calls[c].fn.kind = "op"
  /\ calls[c].at = "entry"
  /\ calls' = [calls EXCEPT ![c].pc = "fnSettled", ![c].outcome = o]
  /\ UNCHANGED <<locks, resolved, started, db, reqs>>

\* The instance the KeyedMutex specification exercises.
SpecMutexes == {"taskMutex"}

Call(m, key) ==
  /\ Len(calls) < MaxCalls
  /\ RunEnter(m, key, GenericFn)
  /\ UNCHANGED <<resolved, started, db, reqs>>

Start(c) ==
  /\ RunStart(c)
  /\ UNCHANGED <<locks, resolved, db, reqs>>

Finally(c) ==
  /\ RunFinally(c)
  /\ UNCHANGED <<started, db, reqs>>

MutexInit ==
  /\ locks = EmptyLocks
  /\ resolved = {}
  /\ calls = <<>>
  /\ started = <<>>

Init ==
  /\ MutexInit
  /\ db = <<>>
  /\ reqs = <<>>

Next ==
  \/ \E m \in SpecMutexes, k \in Keys : Call(m, k)
  \/ \E c \in CallIds : Start(c)
  \/ \E c \in CallIds : OpSuspend(c)
  \/ \E c \in CallIds : OpResume(c)
  \/ \E c \in CallIds, o \in OpOutcomes : OpSettle(c, o)
  \/ \E c \in CallIds : Finally(c)

Spec == Init /\ [][Next]_vars

(***************************************************************************)
(* KeyedMutex with its two read-only methods called at any time.           *)
(***************************************************************************)
\* lines 25-27: return this.locks.has(key)
IsLockedCall(m, key) ==
  /\ isLocked(m, key) \in BOOLEAN
  /\ UNCHANGED vars

\* lines 29-31: return this.locks.size
GetActiveLocksCountCall(m) ==
  /\ getActiveLocksCount(m) \in 0..Cardinality(Keys)
  /\ UNCHANGED vars

ObservedNext ==
  \/ Next
  \/ \E m \in SpecMutexes, k \in Keys : IsLockedCall(m, k)
  \/ \E m \in SpecMutexes : GetActiveLocksCountCall(m)

ObservedSpec == Init /\ [][ObservedNext]_vars

(***************************************************************************)
(* KeyedMutex under the scheduling of the event loop: a call whose          *)
(* currentLock is resolved does resume, and a call whose fn has settled     *)
(* does run its finally block.  Nothing makes an operation settle: once   *)
(* invoked it may stay unsettled for ever.                                 *)
(***************************************************************************)
MaxLiveCalls == 3

LiveOutcomes == {Fulfilled("completed"), Rejected("Error")}

LiveCall(m, key) ==
  /\ Len(calls) < MaxLiveCalls
  /\ RunEnter(m, key, GenericFn)
  /\ UNCHANGED <<resolved, started, db, reqs>>

LiveStart(c) == c \in CallIds /\ Start(c)

LiveFinally(c) == c \in CallIds /\ Finally(c)

LiveNext ==
  \/ \E m \in SpecMutexes, k \in Keys : LiveCall(m, k)
  \/ \E c \in CallIds : LiveStart(c)
  \/ \E c \in CallIds, o \in LiveOutcomes : OpSettle(c, o)
  \/ \E c \in CallIds : LiveFinally(c)

\* The operation of call c, once invoked, settles.
OpSettles(c) ==
  WF_vars(c \in CallIds /\ \E o \in LiveOutcomes : OpSettle(c, o))

\* The event loop resumes call c and runs its finally block.
Scheduled(c) == WF_vars(LiveStart(c)) /\ WF_vars(LiveFinally(c))

\* The key whose operations may never settle.
StalledKey == ""

\* Every operation settles.
ProgressSpec ==
  /\ Init
  /\ [][LiveNext]_vars
  /\ \A c \in 1..MaxLiveCalls : Scheduled(c) /\ OpSettles(c)

\* The operations of every key but StalledKey settle.
StalledSpec ==
  /\ Init
  /\ [][LiveNext]_vars
  /\ \A c \in 1..MaxLiveCalls :
       /\ Scheduled(c)
       /\ WF_vars(c \in CallIds /\ calls[c].key # StalledKey
                    /\ \E o \in LiveOutcomes : OpSettle(c, o))

(***************************************************************************)
(* The two instances taskMutex and eventMutex (lines 34-35) used side by   *)
(* side, with operations that settle the first time they run on.           *)
(***************************************************************************)
InstancesNext ==
  \/ \E m \in Mutexes, k \in Keys : Call(m, k)
  \/ \E c \in CallIds : Start(c)
  \/ \E c \in CallIds, o \in LiveOutcomes : OpSettle(c, o)
  \/ \E c \in CallIds : Finally(c)

InstancesSpec == Init /\ [][InstancesNext]_vars

(***************************************************************************)
(* The store.  A table maps an id to a row or to NoRow.  Every statement   *)
(* (findUnique, findFirst, update, delete) is one atomic step.  Inside     *)
(* prisma.$transaction no isolation level is requested, so the statements  *)
(* of a transaction run at the database default (READ COMMITTED): each one *)
(* sees the rows committed so far, and an UPDATE of a row another          *)
(* transaction has written proceeds on the committed row.  The update is   *)
(* the last statement of every transaction here, so update and commit are  *)
(* one step.                                                               *)
(***************************************************************************)
Tables == {"task", "user", "event"}
TaskIds == {"task-1"}
UserIds == {"user-1"}
EventIds == {"event-1"}
IdsOf(t) == CASE t = "task" -> TaskIds [] t = "user" -> UserIds [] OTHER -> EventIds

\* The version every row starts the model with.
InitVersion == 1

\* body.version undefined or null
NoVersion == -1

\* The assistants a task may be connected to (the table is not written here).
AssistantName == [x \in {"asst-1", "asst-2"} |-> IF x = "asst-1" THEN "Ann" ELSE "Bob"]

InitRow(t) ==
  CASE t = "task" ->
         [version |-> InitVersion, title |-> "Laporan", status |-> "TO_DO",
          priority |-> "LOW", assignee |-> "Ann", assistantId |-> "asst-1"]
    [] t = "user" ->
         [version |-> InitVersion, email |-> "a@lab", role |-> "USER"]
    [] OTHER ->
         [version |-> InitVersion, title |-> "Kuis", type |-> "DEADLINE"]

\* { ...a, ...b }
Merge(a, b) ==
  [k \in DOMAIN a \cup DOMAIN b |-> IF k \in DOMAIN b THEN b[k] ELSE a[k]]

\* Faulty variant of UpdateRow: the version is set to the client's value + 1.
UpdateRowFromClaim(row, data, claimed) ==
  [Merge(row, data) EXCEPT !.version = claimed + 1]

\* update({ where: { id }, data: { ...updateData, version: { increment: 1 } } })
\* applied to an existing row; the claimed version plays no part.
UpdateRow(row, data, claimed) ==
  [Merge(row, data) EXCEPT !.version = @ + 1]

(***************************************************************************)
(* PUT /tasks/:id and DELETE /tasks/:id: src/unnamed/part_006              *)
(***************************************************************************)
mapPriority(v) ==
  CASE v = "low" -> "LOW" [] v = "medium" -> "MEDIUM" [] v = "high" -> "HIGH"
    [] OTHER -> "MEDIUM"

mapStatus(v) ==
  CASE v = "To Do" -> "TO_DO" [] v = "In Progress" -> "IN_PROGRESS"
    [] v = "Done" -> "DONE" [] OTHER -> "TO_DO"

reverseMapPriority(v) ==
  CASE v = "LOW" -> "low" [] v = "MEDIUM" -> "medium" [] v = "HIGH" -> "high"
    [] OTHER -> "medium"

reverseMapStatus(v) ==
  CASE v = "TO_DO" -> "To Do" [] v = "IN_PROGRESS" -> "In Progress"
    [] v = "DONE" -> "Done" [] OTHER -> "To Do"

transformTask(id, task) ==
  [_id |-> id, title |-> task.title,
   priority |-> reverseMapPriority(task.priority),
   status |-> reverseMapStatus(task.status),
   assignee |-> AssistantName[task.assistantId],
   assistantId |-> task.assistantId, version |-> task.version]

\* The requests (claimed version, fields) the model sends to PUT /tasks/:id:
\* edits of different fields and of the same field based on the initial
\* version, a stale edit, one with a version ahead, one without version.
TaskInputs ==
  { <<InitVersion, [status |-> "In Progress"]>>,
    <<InitVersion, [priority |-> "high"]>>,
    <<InitVersion, [status |-> "Done"]>>,
    <<InitVersion, [status |-> "Done", priority |-> "medium"]>>,
    <<0, [title |-> "X"]>>,
    <<InitVersion + 1, [priority |-> "high"]>>,
    <<InitVersion, [assistantId |-> "asst-2"]>>,
    <<InitVersion, [assistantId |-> "asst-9"]>>,
    <<NoVersion, [title |-> "X"]>> }

\* Faulty variant of TaskUpdateData: a full snapshot, absent fields get the
\* creation defaults.
TaskUpdateDataSnapshot(body) ==
  [title |-> IF "title" \in DOMAIN body THEN body.title ELSE "Laporan",
   priority |-> mapPriority(IF "priority" \in DOMAIN body THEN body.priority ELSE ""),
   status |-> mapStatus(IF "status" \in DOMAIN body THEN body.status ELSE "")]

\* lines 154-177: only the fields present in the body; connecting an
\* assistant also sets the assignee to the assistant's name.  description,
\* tags and dueDate are copied the way title is and are not carried here.
TaskUpdateData(body) ==
  LET plain == [k \in DOMAIN body \cap {"title", "priority", "status", "assignee"} |->
                  CASE k = "priority" -> mapPriority(body[k])
                    [] k = "status" -> mapStatus(body[k])
                    [] OTHER -> body[k]]
  IN IF "assistantId" \in DOMAIN body
       THEN Merge(plain, [assignee |-> AssistantName[body.assistantId],
                          assistantId |-> body.assistantId])
       ELSE plain

\* An HTTP request and, once status is not 0, its response.
Request(route, t, id, v, body, pc, call) ==
  [route |-> route, table |-> t, id |-> id, version |-> v, body |-> body,
   pc |-> pc, call |-> call, merged |-> FALSE,
   status |-> 0, code |-> "", data |-> NoRow]

Respond(req, status, code, data) ==
  [req EXCEPT !.pc = "done", !.status = status, !.code = code, !.data = data]

ReqIds == 1..Len(reqs)

\* Faulty variant of VersionMissing: the handler does not test the version.
VersionMissingUnchecked(v) == FALSE

\* part_006 line 145, events.ts line 99, part_001 line 185:
\* version === undefined || version === null; NoVersion stands for both.
VersionMissing(v) == v = NoVersion

\* lines 138-179: up to the call of taskMutex.run.
TaskPut(id, v, body) ==
  /\ Len(reqs) < MaxReqs
  /\ IF VersionMissing(v)
       THEN /\ reqs' = Append(reqs,
                 Respond(Request("PUT", "task", id, v, body, "done", 0),
                         400, "VERSION_REQUIRED", NoRow))
            /\ UNCHANGED <<locks, calls>>
       ELSE IF "assistantId" \in DOMAIN body /\ body.assistantId \notin DOMAIN AssistantName
       THEN /\ reqs' = Append(reqs,
                 Respond(Request("PUT", "task", id, v, body, "done", 0),
                         400, "Assistant not found", NoRow))
            /\ UNCHANGED <<locks, calls>>
       ELSE /\ reqs' = Append(reqs,
                 Request("PUT", "task", id, v, body, "run", Len(calls) + 1))
            /\ RunEnter("taskMutex", id,
                 [kind |-> "taskUpdate", req |-> Len(reqs) + 1, id |-> id,
                  userVersion |-> v, updateData |-> TaskUpdateData(body)])
  /\ UNCHANGED <<resolved, started, db>>

\* Faulty variant of TaskFindUnique: a stale version is rejected as in the
\* strict protocol instead of being logged.
TaskFindUniqueStrict(c) ==
  LET fn == calls[c].fn
      currentTask == db["task"][fn.id]
  IN /\ calls[c].pc = "inFn"
     /\ fn.kind = "taskUpdate"
     /\ calls[c].at = "entry"
     /\ IF currentTask = NoRow
          THEN calls' = [calls EXCEPT ![c].pc = "fnSettled",
                           ![c].outcome = Rejected("TASK_NOT_FOUND")]
          ELSE IF currentTask.version > fn.userVersion
          THEN calls' = [calls EXCEPT ![c].pc = "fnSettled",
                           ![c].outcome = Rejected("VERSION_CONFLICT")]
          ELSE calls' = [calls EXCEPT ![c].at = "update"]
     /\ UNCHANGED <<locks, resolved, started, db, reqs>>

\* Faulty variant of TaskFindUnique: the result of findUnique is not tested
\* for null before the update statement.
TaskFindUniqueUnchecked(c) ==
  /\ calls[c].pc = "inFn"
  /\ calls[c].fn.kind = "taskUpdate"
  /\ calls[c].at = "entry"
  /\ calls' = [calls EXCEPT ![c].at = "update"]
  /\ UNCHANGED <<locks, resolved, started, db, reqs>>

\* lines 180-191: findUnique, then the not-found and the auto-merge tests.
TaskFindUnique(c) ==
  LET fn == calls[c].fn
      currentTask == db["task"][fn.id]
  IN /\ calls[c].pc = "inFn"
     /\ fn.kind = "taskUpdate"
     /\ calls[c].at = "entry"
     /\ IF currentTask = NoRow
          THEN /\ calls' = [calls EXCEPT ![c].pc = "fnSettled",
                              ![c].outcome = Rejected("TASK_NOT_FOUND")]
               /\ UNCHANGED reqs
          ELSE /\ calls' = [calls EXCEPT ![c].at = "update"]
               /\ reqs' = [reqs EXCEPT ![fn.req].merged =
                             (currentTask.version > fn.userVersion)]
     /\ UNCHANGED <<locks, resolved, started, db>>

\* lines 193-202: the update statement; it fails with P2025 on a missing row.
TaskUpdate(c) ==
  LET fn == calls[c].fn
      row == db["task"][fn.id]
  IN /\ calls[c].pc = "inFn"
     /\ fn.kind = "taskUpdate"
     /\ calls[c].at = "update"
     /\ IF row = NoRow
          THEN /\ calls' = [calls EXCEPT ![c].pc = "fnSettled",
                              ![c].outcome = Rejected("P2025")]
               /\ UNCHANGED db
          ELSE LET new == UpdateRow(row, fn.updateData, fn.userVersion) IN
               /\ db' = [db EXCEPT !["task"][fn.id] = new]
               /\ calls' = [calls EXCEPT ![c].pc = "fnSettled",
                              ![c].outcome = Fulfilled(new)]
     /\ UNCHANGED <<locks, resolved, started, reqs>>

\* lines 205-223: the response to a settled run.
TaskResponse(req, res) ==
  IF res.state = "fulfilled"
    THEN Respond(req, 200, "", transformTask(req.id, res.value))
  ELSE IF res.error \in {"TASK_NOT_FOUND", "P2025"}
    THEN Respond(req, 404, "Task not found", NoRow)
  ELSE Respond(req, 500, "Failed to update task", NoRow)

\* queue.ts lines 17-22 and then lines 205-223: finally releases the slot,
\* run settles and the handler, which reads nothing but run's result, answers.
TaskFinally(c) ==
  /\ calls[c].fn.kind = "taskUpdate"
  /\ RunFinally(c)
  /\ reqs' = [reqs EXCEPT ![calls[c].fn.req] = TaskResponse(@, calls'[c].result)]
  /\ UNCHANGED <<started, db>>

\* lines 226-239: the delete statement, outside taskMutex.
TaskDelete(id) ==
  /\ Len(reqs) < MaxReqs
  /\ IF db["task"][id] = NoRow
       THEN /\ reqs' = Append(reqs,
                 Respond(Request("DELETE", "task", id, NoVersion, <<>>, "done", 0),
                         404, "Task not found", NoRow))
            /\ UNCHANGED db
       ELSE /\ reqs' = Append(reqs,
                 Respond(Request("DELETE", "task", id, NoVersion, <<>>, "done", 0),
                         204, "", NoRow))
            /\ db' = [db EXCEPT !["task"][id] = NoRow]
  /\ UNCHANGED <<locks, resolved, calls, started>>

StoreInit ==
  /\ MutexInit
  /\ db = [t \in Tables |-> [id \in IdsOf(t) |-> InitRow(t)]]
  /\ reqs = <<>>

\* The steps of the task handlers after a request has arrived.
TaskSteps ==
  \/ \E c \in CallIds : Start(c)
  \/ \E c \in CallIds : TaskFindUnique(c)
  \/ \E c \in CallIds : TaskUpdate(c)
  \/ \E c \in CallIds : TaskFinally(c)

TaskNext ==
  \/ \E id \in TaskIds, in \in TaskInputs : TaskPut(id, in[1], in[2])
  \/ \E id \in TaskIds : TaskDelete(id)
  \/ TaskSteps

TaskSpec == StoreInit /\ [][TaskNext]_vars

(***************************************************************************)
(* PUT /users/:id, DELETE /users/:id: src/unnamed/part_001                 *)
(* PUT /events/:id, DELETE /events/:id: src/src/routes/events.ts           *)
(* Both updates run the same transaction: findFirst by id and version,     *)
(* findUnique by id when that finds nothing, else update by id.            *)
(***************************************************************************)
StrictTables == {"user", "event"}

mapEventType(v) ==
  CASE v = "deadline" -> "DEADLINE" [] v = "release" -> "RELEASE"
    [] v = "assessment" -> "ASSESSMENT" [] OTHER -> "HIGHLIGHT"

\* event.type.toLowerCase()
toLowerCase(v) ==
  CASE v = "DEADLINE" -> "deadline" [] v = "RELEASE" -> "release"
    [] v = "ASSESSMENT" -> "assessment" [] v = "HIGHLIGHT" -> "highlight"
    [] OTHER -> v

transformUser(id, user) ==
  [_id |-> id, email |-> user.email, role |-> user.role, version |-> user.version]

transformEvent(id, event) ==
  [_id |-> id, title |-> event.title, type |-> toLowerCase(event.type),
   version |-> event.version]

transformStrict(t, id, row) ==
  IF t = "user" THEN transformUser(id, row) ELSE transformEvent(id, row)

\* part_001 lines 195-197, events.ts lines 129-136: the fields to write.
StrictUpdateData(t, body) ==
  IF t = "user"
    THEN [k \in DOMAIN body \cap {"email", "role"} |-> body[k]]
    ELSE [k \in DOMAIN body \cap {"title", "type"} |->
            IF k = "type" THEN mapEventType(body[k]) ELSE body[k]]

\* The requests (claimed version, fields) the model sends to the strict PUTs.
StrictInputs(t) ==
  IF t = "user"
    THEN { <<InitVersion, [role |-> "ADMIN"]>>,
           <<InitVersion, [email |-> "b@lab"]>>,
           <<0, [role |-> "ASSISTANT"]>>,
           <<InitVersion + 1, [email |-> "c@lab"]>>,
           <<NoVersion, [role |-> "ADMIN"]>> }
    ELSE { <<InitVersion, [title |-> "UTS"]>>,
           <<InitVersion, [type |-> "release"]>>,
           <<0, [title |-> "X"]>>,
           <<InitVersion + 1, [type |-> "assessment"]>>,
           <<NoVersion, [title |-> "UTS"]>> }

\* part_001 lines 177-200, events.ts lines 93-110: up to the transaction.
StrictPut(t, id, v, body) ==
  /\ Len(reqs) < MaxReqs
  /\ reqs' = Append(reqs,
       IF VersionMissing(v)
         THEN Respond(Request("PUT", t, id, v, body, "done", 0),
                      400, "VERSION_REQUIRED", NoRow)
         ELSE Request("PUT", t, id, v, body, "findFirst", 0))
  /\ UNCHANGED <<locks, resolved, calls, started, db>>

\* Faulty variant of VersionMatches: the version filter is left out.
VersionIgnored(row, v) == row # NoRow

\* findFirst({ where: { id, version: currentVersion } }) finds the row.
VersionMatches(row, v) == row # NoRow /\ row.version = v

\* part_001 lines 201-205, events.ts lines 112-116
TxFindFirst(r) ==
  LET req == reqs[r] IN
  /\ req.pc = "findFirst"
  /\ reqs' = [reqs EXCEPT ![r].pc =
       IF VersionMatches(db[req.table][req.id], req.version)
         THEN "update" ELSE "findUnique"]
  /\ UNCHANGED <<locks, resolved, calls, started, db>>

\* part_001 lines 206-208 and 230-239, events.ts lines 118-122 and 147-156
TxFindUnique(r) ==
  LET req == reqs[r] IN
  /\ req.pc = "findUnique"
  /\ reqs' = [reqs EXCEPT ![r] =
       IF db[req.table][req.id] = NoRow
         THEN Respond(@, 404, "NOT_FOUND", NoRow)
         ELSE Respond(@, 409, "CONFLICT", NoRow)]
  /\ UNCHANGED <<locks, resolved, calls, started, db>>

\* part_001 lines 211-225 and 241-242, events.ts lines 126-142 and 158-161:
\* the update statement and the commit.  On a missing row the statement
\* fails with P2025, which only the events handler maps to 404.
TxUpdate(r) ==
  LET req == reqs[r]
      row == db[req.table][req.id]
  IN /\ req.pc = "update"
     /\ IF row = NoRow
          THEN /\ reqs' = [reqs EXCEPT ![r] =
                    IF req.table = "event"
                      THEN Respond(@, 404, "NOT_FOUND", NoRow)
                      ELSE Respond(@, 500, "Failed to update user", NoRow)]
               /\ UNCHANGED db
          ELSE LET new == UpdateRow(row, StrictUpdateData(req.table, req.body), req.version) IN
               /\ db' = [db EXCEPT ![req.table][req.id] = new]
               /\ reqs' = [reqs EXCEPT ![r] =
                    Respond(@, 200, "", transformStrict(req.table, req.id, new))]
     /\ UNCHANGED <<locks, resolved, calls, started>>

\* part_001 lines 246-262, events.ts lines 165-176
StrictDelete(t, id) ==
  /\ Len(reqs) < MaxReqs
  /\ IF db[t][id] = NoRow
       THEN /\ reqs' = Append(reqs,
                 Respond(Request("DELETE", t, id, NoVersion, <<>>, "done", 0),
                         404, "NOT_FOUND", NoRow))
            /\ UNCHANGED db
       ELSE /\ reqs' = Append(reqs,
                 Respond(Request("DELETE", t, id, NoVersion, <<>>, "done", 0),
                         204, "", NoRow))
            /\ db' = [db EXCEPT ![t][id] = NoRow]
  /\ UNCHANGED <<locks, resolved, calls, started>>

\* The steps of the strict handlers after a request has arrived.
StrictSteps ==
  \/ \E r \in ReqIds : TxFindFirst(r)
  \/ \E r \in ReqIds : TxFindUnique(r)
  \/ \E r \in ReqIds : TxUpdate(r)

StrictNext ==
  \/ \E t \in StrictTables : \E id \in IdsOf(t), in \in StrictInputs(t) :
       StrictPut(t, id, in[1], in[2])
  \/ \E t \in StrictTables : \E id \in IdsOf(t) : StrictDelete(t, id)
  \/ StrictSteps

StrictSpec == StoreInit /\ [][StrictNext]_vars

\* Every handler that writes a versioned row, each with a current and a
\* stale request.
StoreTaskInputs ==
  { <<InitVersion, [status |-> "In Progress"]>>, <<0, [title |-> "X"]>>,
    <<NoVersion, [title |-> "X"]>> }

StoreStrictInputs(t) ==
  IF t = "user"
    THEN { <<InitVersion, [role |-> "ADMIN"]>>, <<0, [role |-> "ASSISTANT"]>>,
           <<NoVersion, [role |-> "ADMIN"]>> }
    ELSE { <<InitVersion, [title |-> "UTS"]>>, <<InitVersion + 1, [type |-> "assessment"]>>,
           <<NoVersion, [title |-> "UTS"]>> }

StoreNext ==
  \/ \E id \in TaskIds, in \in StoreTaskInputs : TaskPut(id, in[1], in[2])
  \/ \E t \in StrictTables : \E id \in IdsOf(t), in \in StoreStrictInputs(t) :
       StrictPut(t, id, in[1], in[2])
  \/ \E id \in TaskIds : TaskDelete(id)
  \/ \E t \in StrictTables : \E id \in IdsOf(t) : StrictDelete(t, id)
  \/ TaskSteps
  \/ StrictSteps

StoreSpec == StoreInit /\ [][StoreNext]_vars

(***************************************************************************)
(* PUT /assistants/:id, DELETE /assistants/:id: src/unnamed/part_000       *)
(* The caller is an authenticated assistant, so the 403 branch is not      *)
(* taken and isActive, email and nim are not written.                      *)
(***************************************************************************)
AssistantIds == {"asst-1"}

AssistantInitRow == [version |-> InitVersion, name |-> "Ann", role |-> "ASSISTANT"]

\* lines 34-52
mapAssistantRole(role) ==
  CASE role \in {"ASSISTANT", "HEAD_ASSISTANT", "RESEARCH_ASSISTANT",
                 "TEACHING_ASSISTANT", "LAB_ASSISTANT"} -> role
    [] role = "Assistant" -> "ASSISTANT"
    [] role = "Head Assistant" -> "HEAD_ASSISTANT"
    [] role = "Research Assistant" -> "RESEARCH_ASSISTANT"
    [] role = "Teaching Assistant" -> "TEACHING_ASSISTANT"
    [] role = "Lab Assistant" -> "LAB_ASSISTANT"
    [] OTHER -> "ASSISTANT"

\* lines 54-65: the version is not part of the answer.
transformAssistant(id, assistant) ==
  [_id |-> id, name |-> assistant.name, role |-> assistant.role]

\* lines 185-200: updateAssistantSchema drops body.version with every other
\* unknown key; name and role are copied when present.
AssistantUpdateData(body) ==
  [k \in DOMAIN body \cap {"name", "role"} |->
     IF k = "role" THEN mapAssistantRole(body[k]) ELSE body[k]]

\* The requests (version sent by the client, fields) of the assistant PUT.
AssistantInputs ==
  { <<InitVersion, [name |-> "Cid"]>>,
    <<InitVersion, [role |-> "Head Assistant"]>>,
    <<0, [name |-> "Dan"]>>,
    <<NoVersion, [role |-> "LAB_ASSISTANT"]>> }

\* lines 166-171 and 220-225: the request arrives; findUnique comes first.
AssistantArrives(route, id, v, body) ==
  /\ Len(reqs) < MaxReqs
  /\ reqs' = Append(reqs, Request(route, "assistant", id, v, body, "findUnique", 0))
  /\ UNCHANGED <<locks, resolved, calls, started, db>>

\* lines 171-174 and 225-228: findUnique and the 404 answer.
AssistantFindUnique(r) ==
  LET req == reqs[r] IN
  /\ req.table = "assistant"
  /\ req.pc = "findUnique"
  /\ reqs' = [reqs EXCEPT ![r] =
       IF db["assistant"][req.id] = NoRow
         THEN Respond(@, 404, "Assistant not found", NoRow)
         ELSE [@ EXCEPT !.pc = IF req.route = "PUT" THEN "update" ELSE "delete"]]
  /\ UNCHANGED <<locks, resolved, calls, started, db>>

\* lines 202-216: update({ where: { id }, data: updateData }); the version
\* is neither compared nor written.  P2025 on a missing row answers 500.
AssistantUpdate(r) ==
  LET req == reqs[r]
      row == db["assistant"][req.id]
  IN /\ req.table = "assistant"
     /\ req.pc = "update"
     /\ IF row = NoRow
          THEN /\ reqs' = [reqs EXCEPT ![r] =
                    Respond(@, 500, "Failed to update assistant", NoRow)]
               /\ UNCHANGED db
          ELSE LET new == Merge(row, AssistantUpdateData(req.body)) IN
               /\ db' = [db EXCEPT !["assistant"][req.id] = new]
               /\ reqs' = [reqs EXCEPT ![r] =
                    Respond(@, 200, "", transformAssistant(req.id, new))]
     /\ UNCHANGED <<locks, resolved, calls, started>>

\* lines 230-235: the delete statement; P2025 on a missing row answers 500.
AssistantDelete(r) ==
  LET req == reqs[r] IN
  /\ req.table = "assistant"
  /\ req.pc = "delete"
  /\ IF db["assistant"][req.id] = NoRow
       THEN /\ reqs' = [reqs EXCEPT ![r] =
                 Respond(@, 500, "Failed to delete assistant", NoRow)]
            /\ UNCHANGED db
       ELSE /\ reqs' = [reqs EXCEPT ![r] = Respond(@, 200, "", NoRow)]
            /\ db' = [db EXCEPT !["assistant"][req.id] = NoRow]
  /\ UNCHANGED <<locks, resolved, calls, started>>

AssistantInit ==
  /\ MutexInit
  /\ db = [assistant |-> [id \in AssistantIds |-> AssistantInitRow]]
  /\ reqs = <<>>

AssistantNext ==
  \/ \E id \in AssistantIds, in \in AssistantInputs :
       AssistantArrives("PUT", id, in[1], in[2])
  \/ \E id \in AssistantIds : AssistantArrives("DELETE", id, NoVersion, <<>>)
  \/ \E r \in ReqIds : AssistantFindUnique(r)
  \/ \E r \in ReqIds : AssistantUpdate(r)
  \/ \E r \in ReqIds : AssistantDelete(r)

AssistantSpec == AssistantInit /\ [][AssistantNext]_vars

(***************************************************************************)
(* A restart of the process.  The module queue.ts is evaluated anew, so    *)
(* taskMutex is a new KeyedMutex with an empty map; every call of run and  *)
(* every request in flight is gone and gets no answer; the database keeps  *)
(* what was committed.  The restart is recorded in reqs at its place among *)
(* the requests.                                                           *)
(***************************************************************************)
\* What the restart does to a call or a request that has not finished.
Lose(x) == IF x.pc = "done" THEN x ELSE [x EXCEPT !.pc = "lost"]

RestartMark == Respond(Request("RESTART", "", "", NoVersion, <<>>, "done", 0), 0, "", NoRow)

\* Faulty variant of Restart: the store is in memory too and starts anew.
RestartLosesStore ==
  /\ Len(reqs) < MaxReqs
  /\ locks' = EmptyLocks
  /\ calls' = [c \in CallIds |-> Lose(calls[c])]
  /\ reqs' = Append([r \in ReqIds |-> Lose(reqs[r])], RestartMark)
  /\ db' = [t \in Tables |-> [id \in IdsOf(t) |-> InitRow(t)]]
  /\ UNCHANGED <<resolved, started>>

\* queue.ts lines 1-2 and 34: the lock map is a field of an object in memory.
Restart ==
  /\ Len(reqs) < MaxReqs
  /\ locks' = EmptyLocks
  /\ calls' = [c \in CallIds |-> Lose(calls[c])]
  /\ reqs' = Append([r \in ReqIds |-> Lose(reqs[r])], RestartMark)
  /\ UNCHANGED <<resolved, started, db>>

CrashNext ==
  \/ \E id \in TaskIds, in \in StoreTaskInputs : TaskPut(id, in[1], in[2])
  \/ \E id \in TaskIds : TaskDelete(id)
  \/ TaskSteps
  \/ Restart

CrashSpec == StoreInit /\ [][CrashNext]_vars

(***************************************************************************)
(* Properties of KeyedMutex, checked under Spec.                           *)
(***************************************************************************)
SameKey(c, d) == calls[c].mutex = calls[d].mutex /\ calls[c].key = calls[d].key

\* fn has been invoked and has not settled (it may be suspended on I/O).
Executing(c) == calls[c].pc = "inFn"

\* run has been entered and has not completed.
Outstanding(c) == calls[c].pc # "done"

\* C1: for every instance and key at most one operation is executing, also
\* while it is suspended on I/O, and an operation has begun only if every
\* call registered before it on the key has settled and released its slot.
MutualExclusion ==
  \A c, d \in CallIds :
    (c < d /\ SameKey(c, d)) =>
      /\ ~(Executing(c) /\ Executing(d))
      /\ (calls[d].pc # "awaitLock" => calls[c].pc = "done")

\* A holder suspended on I/O with a later call of the same key still queued.
MutualExclusionWitness ==
  \E c, d \in CallIds :
    /\ c < d /\ SameKey(c, d)
    /\ Executing(c) /\ calls[c].at = "io"
    /\ calls[d].pc = "awaitLock"

\* C2: calls of one key begin their operations in the order in which run
\* was entered, whatever the earlier ones did: when a call has begun, every
\* call entered before it on the key has begun earlier.
HasStarted(c) == \E i \in 1..Len(started) : started[i] = c

StartedBefore(c, d) ==
  \E i, j \in 1..Len(started) : i < j /\ started[i] = c /\ started[j] = d

FifoPerKey ==
  \A c, d \in CallIds :
    (c < d /\ SameKey(c, d) /\ HasStarted(d)) => StartedBefore(c, d)

\* Three operations of one key have begun, the first of them failed.
FifoPerKeyWitness ==
  /\ Len(started) >= 3
  /\ SameKey(started[1], started[2]) /\ SameKey(started[2], started[3])
  /\ calls[started[1]].result.state = "rejected"

\* C8: once a failing call has completed, its slot is resolved, every call
\* queued behind it can begin, and if no call of the key is outstanding the
\* key has no entry (isLocked is false), so a new call gets a resolved slot.
Failed(c) == calls[c].pc = "done" /\ calls[c].result.state = "rejected"

NoLockLeakOnFailure ==
  \A c \in CallIds :
    Failed(c) =>
      /\ IsResolved(c)
      /\ \A d \in CallIds :
           (calls[d].pc = "awaitLock" /\ calls[d].currentLock = c) => CanStart(d)
      /\ (\A d \in CallIds : SameKey(c, d) => ~Outstanding(d)) =>
           /\ ~isLocked(calls[c].mutex, calls[c].key)
           /\ IsResolved(CurrentLock(calls[c].mutex, calls[c].key))

\* A call that began after the failure of its predecessor on the key, and a
\* key left unlocked by a failure.
NoLockLeakOnFailureWitness ==
  /\ \E c, d \in CallIds :
       /\ c < d /\ SameKey(c, d) /\ Failed(c)
       /\ calls[d].currentLock = c /\ Executing(d)
  /\ \E c \in CallIds :
       /\ Failed(c)
       /\ \A d \in CallIds : SameKey(c, d) => ~Outstanding(d)

\* C9: a call settles exactly as its own operation did, value or failure,
\* not before the operation settled, and once settled its outcome and that
\* of every other call stay as they are.
OutcomeDelivered ==
  \A c \in CallIds :
    /\ calls[c].pc = "done" => calls[c].result = calls[c].outcome
    /\ calls[c].pc # "done" => calls[c].result = Pending
    /\ calls[c].pc \in {"awaitLock", "inFn"} => calls[c].outcome = Pending

OutcomeStable ==
  \A c \in CallIds :
    /\ calls[c].outcome # Pending => calls'[c].outcome = calls[c].outcome
    /\ calls[c].result # Pending => calls'[c].result = calls[c].result

OutcomePassThrough == []OutcomeDelivered /\ [][OutcomeStable]_vars

\* One call failed and calls of the same key registered after it delivered
\* undefined and null.
OutcomePassThroughWitness ==
  \E c, d, e \in CallIds :
    /\ c < d /\ d < e /\ SameKey(c, d) /\ SameKey(d, e)
    /\ calls[c].result = Rejected("string error")
    /\ calls[d].result = Fulfilled("undefined")
    /\ calls[e].result = Fulfilled("null")

\* C10: a waiting call can begin exactly when every call registered before
\* it on its own key has completed; calls of other keys play no part.
EarlierSameKeyDone(c) ==
  \A d \in CallIds : (d < c /\ SameKey(c, d)) => calls[d].pc = "done"

ParallelAcrossKeys ==
  \A c \in CallIds :
    calls[c].pc = "awaitLock" => (CanStart(c) <=> EarlierSameKeyDone(c))

\* Operations of two keys executing at once, the later registered while the
\* earlier was already there.
ParallelAcrossKeysWitness ==
  \E c, d \in CallIds :
    /\ c < d /\ calls[c].mutex = calls[d].mutex /\ calls[c].key # calls[d].key
    /\ Executing(c) /\ calls[c].at = "io"
    /\ Executing(d)

(***************************************************************************)
(* Properties of the versioned updates.                                    *)
(***************************************************************************)
IsPut(r, t) == reqs[r].route = "PUT" /\ reqs[r].table = t
IsDelete(r, t) == reqs[r].route = "DELETE" /\ reqs[r].table = t

\* The step is the successful update statement of a request on row (t, id),
\* and new is the row it returns.
UpdateCommits(t, id, new) ==
  IF t = "task"
    THEN \E c \in CallIds :
           /\ calls[c].fn.kind = "taskUpdate" /\ calls[c].fn.id = id
           /\ calls[c].outcome = Pending
           /\ calls'[c].outcome = Fulfilled(new)
    ELSE \E r \in ReqIds :
           /\ IsPut(r, t) /\ reqs[r].id = id
           /\ reqs[r].status = 0
           /\ reqs'[r].status = 200
           /\ reqs'[r].data.version = new.version

\* C3: a stored version changes only in a step that is a successful update
\* of that row, and then from v to v + 1 whatever version the client
\* claimed; a row never comes back after a delete; and every successful
\* update changes the version.
VersionStep ==
  \A t \in Tables : \A id \in IdsOf(t) :
    LET old == db[t][id]
        new == db'[t][id]
    IN /\ old = NoRow => new = NoRow
       /\ (old # NoRow /\ new # NoRow /\ new.version # old.version) =>
            /\ new.version = old.version + 1
            /\ UpdateCommits(t, id, new)
       /\ (new # NoRow /\ UpdateCommits(t, id, new)) =>
            (old # NoRow /\ new.version = old.version + 1)

VersionMonotonic == [][VersionStep]_vars

\* A task updated twice, the second time by a stale request, and a user
\* updated once by a strict request.
VersionMonotonicWitness ==
  /\ db["task"]["task-1"] # NoRow
  /\ db["task"]["task-1"].version = InitVersion + 2
  /\ \E r \in ReqIds : IsPut(r, "task") /\ reqs[r].merged /\ reqs[r].status = 200
  /\ db["user"]["user-1"] # NoRow
  /\ db["user"]["user-1"].version = InitVersion + 1

\* C4: of two strict updates of one row that claim the same version at most
\* one commits, and once both have answered the other one got the conflict.
BothClaim(r1, r2) ==
  /\ r1 < r2
  /\ reqs[r1].route = "PUT" /\ reqs[r2].route = "PUT"
  /\ reqs[r1].table \in StrictTables
  /\ reqs[r1].table = reqs[r2].table /\ reqs[r1].id = reqs[r2].id
  /\ reqs[r1].version = InitVersion /\ reqs[r2].version = InitVersion

StrictSingleWinner ==
  \A r1, r2 \in ReqIds :
    (BothClaim(r1, r2) /\ (\A r \in ReqIds : ~IsDelete(r, reqs[r1].table))) =>
      /\ ~(reqs[r1].status = 200 /\ reqs[r2].status = 200)
      /\ (reqs[r1].pc = "done" /\ reqs[r2].pc = "done") =>
           {reqs[r1].status, reqs[r2].status} = {200, 409}

\* Task PUT requests that reach taskMutex.run.
TaskUpdates ==
  {r \in ReqIds : IsPut(r, "task") /\ reqs[r].call # 0}

NoTaskDelete == \A r \in ReqIds : ~IsDelete(r, "task")

TaskRow(id) == db["task"][id]

\* C5: two task updates that claim the initial version and whose bodies
\* name disjoint fields, with no other write to the task, both answer 200
\* and leave the task showing every value either of them sent and the
\* version raised by two, whichever of the two was registered first.
DisjointPair(r1, r2) ==
  /\ r1 # r2 /\ r1 \in TaskUpdates /\ r2 \in TaskUpdates
  /\ reqs[r1].id = reqs[r2].id
  /\ reqs[r1].version = InitVersion /\ reqs[r2].version = InitVersion
  /\ DOMAIN reqs[r1].body \cap DOMAIN reqs[r2].body = {}
  /\ reqs[r1].pc = "done" /\ reqs[r2].pc = "done"
  /\ TaskUpdates = {r1, r2} /\ NoTaskDelete

StaleStep ==
  \A c \in CallIds :
    LET fn == calls[c].fn
        row == TaskRow(fn.id)
    IN (/\ fn.kind = "taskUpdate"
        /\ calls[c].pc = "inFn" /\ calls[c].at = "update"
        /\ calls'[c].pc = "fnSettled"
        /\ row # NoRow /\ row.version > fn.userVersion) =>
         LET new == db'["task"][fn.id] IN
         /\ calls'[c].outcome = Fulfilled(new)
         /\ new.version = row.version + 1
         /\ \A k \in DOMAIN row \ {"version"} :
              new[k] = IF k \in DOMAIN fn.updateData THEN fn.updateData[k] ELSE row[k]

TaskNeverConflicts ==
  \A r \in ReqIds :
    IsPut(r, "task") =>
      /\ reqs[r].status # 409
      /\ (r \in TaskUpdates /\ reqs[r].pc = "done" /\ NoTaskDelete) =>
           reqs[r].status = 200

RECURSIVE ApplyUpdates(_, _)
ApplyUpdates(row, rs) ==
  IF rs = {} THEN row
  ELSE LET r == CHOOSE x \in rs : \A y \in rs : x <= y IN
       ApplyUpdates(UpdateRow(row, calls[reqs[r].call].fn.updateData, reqs[r].version),
                    rs \ {r})

\* C7: with no delete, once every task update has answered, all answered
\* 200, the k-th registered one returned the initial version plus k, and the
\* stored row is the initial row with all updates applied in that order:
\* its version is the initial version plus their number.
NoLostUpdate ==
  (NoTaskDelete /\ \A r \in TaskUpdates : reqs[r].pc = "done") =>
    /\ \A r \in TaskUpdates :
         /\ reqs[r].status = 200
         /\ reqs[r].data.version =
              InitVersion + Cardinality({x \in TaskUpdates : x <= r})
    /\ TaskRow("task-1") # NoRow
    /\ TaskRow("task-1").version = InitVersion + Cardinality(TaskUpdates)
    /\ TaskRow("task-1") = ApplyUpdates(InitRow("task"), TaskUpdates)

\* As many updates as the bound allows, all claiming the initial version,
\* all registered before the first one finished, all answered.
NoLostUpdateWitness ==
  /\ Len(reqs) = MaxReqs /\ TaskUpdates = ReqIds
  /\ \A r \in ReqIds : reqs[r].version = InitVersion /\ reqs[r].pc = "done"
  /\ \A c \in CallIds : c > 1 => calls[c].currentLock = c - 1
  /\ TaskRow("task-1").version = InitVersion + MaxReqs

\* C11: a task with one delete and one update and nothing else: when the
\* delete arrived before the update, the update answers 404 and the task
\* stays absent; when the delete arrived after the update had entered
\* taskMutex.run, the update answers 200 with the version raised by one, the
\* delete answers 204 and the task is absent.
DeleteUpdatePair(r, d) ==
  /\ TaskUpdates = {r}
  /\ {x \in ReqIds : IsDelete(x, "task")} = {d}
  /\ reqs[r].id = reqs[d].id
  /\ reqs[r].pc = "done"

DeleteUpdateRace ==
  \A r, d \in ReqIds :
    DeleteUpdatePair(r, d) =>
      IF d < r
        THEN /\ reqs[r].status = 404
             /\ TaskRow(reqs[r].id) = NoRow
        ELSE /\ reqs[r].status = 200
             /\ reqs[r].data.version = InitVersion + 1
             /\ reqs[d].status = 204
             /\ TaskRow(reqs[r].id) = NoRow

\* The step in which strict update r, sent with a version, answers.
StrictAnswers(r) ==
  /\ reqs[r].route = "PUT" /\ reqs[r].table \in StrictTables
  /\ reqs[r].status = 0
  /\ reqs'[r].status # 0

\* C12: a strict update that claims version e answers by the stored row at
\* the moment it answers: 404 exactly when there is no row, 409 exactly when
\* the row has another version than e, 200 exactly when the row has version
\* e; and an update that does not answer 200 leaves the store as it was.
StrictDiscriminationStep ==
  \A r \in ReqIds :
    StrictAnswers(r) =>
      LET row == db[reqs[r].table][reqs[r].id]
          e == reqs[r].version
      IN /\ reqs'[r].status = 404 <=> row = NoRow
         /\ reqs'[r].status = 409 <=> (row # NoRow /\ row.version # e)
         /\ reqs'[r].status = 200 <=> (row # NoRow /\ row.version = e)
         /\ reqs'[r].status # 200 => db' = db

StrictDiscrimination == [][StrictDiscriminationStep]_vars

\* The step in which a request arrives; it is the last of reqs'.
Arrives == Len(reqs') = Len(reqs) + 1

\* C13: an update of a task, an event or a user sent without a version is
\* answered 400 VERSION_REQUIRED in the step in which it arrives, whatever
\* the store holds; that step leaves the store, the lock map and the calls
\* of run as they were, so no call waits for it; and no request sent with a
\* version is ever answered VERSION_REQUIRED.
MissingVersionStep ==
  Arrives =>
    LET req == reqs'[Len(reqs')] IN
    (req.route = "PUT" /\ req.version = NoVersion) =>
      /\ req.pc = "done" /\ req.status = 400 /\ req.code = "VERSION_REQUIRED"
      /\ req.call = 0
      /\ db' = db /\ locks' = locks /\ resolved' = resolved /\ calls' = calls

VersionRequiredOnlyWhenMissing ==
  \A r \in ReqIds :
    reqs[r].route = "PUT" =>
      (reqs[r].code = "VERSION_REQUIRED" <=> reqs[r].version = NoVersion)

MissingVersion == []VersionRequiredOnlyWhenMissing /\ [][MissingVersionStep]_vars

\* A task update without a version answered 400 while an earlier task update
\* was registered, which answered 200, and an update of a user without a
\* version answered 400 as well.
MissingVersionWitness ==
  /\ \E r1, r2 \in ReqIds :
       /\ r1 < r2
       /\ r1 \in TaskUpdates /\ reqs[r1].status = 200
       /\ IsPut(r2, "task") /\ reqs[r2].version = NoVersion /\ reqs[r2].status = 400
       /\ TaskRow(reqs[r1].id).version = InitVersion + 1
  /\ \E r \in ReqIds : IsPut(r, "user") /\ reqs[r].status = 400

\* C14: no event update is ever answered 409, and with no delete of an event
\* every event update sent with a version, stale or not, has answered 200
\* once it is done.
EventAutoMerge ==
  \A r \in ReqIds :
    IsPut(r, "event") =>
      /\ reqs[r].status # 409
      /\ (/\ reqs[r].pc = "done" /\ reqs[r].version # NoVersion
          /\ \A d \in ReqIds : ~IsDelete(d, "event")) =>
           reqs[r].status = 200

\* C15: an assistant update that answers while the assistant exists answers
\* by the stored version: when it equals the version the caller sent, 200
\* with the stored version raised by one; otherwise 409 with the store left
\* as it was.
AssistantGateStep ==
  \A r \in ReqIds :
    LET req == reqs[r]
        row == db["assistant"][req.id]
    IN (/\ IsPut(r, "assistant") /\ req.status = 0 /\ reqs'[r].status # 0
        /\ row # NoRow) =>
         IF row.version = req.version
           THEN /\ reqs'[r].status = 200
                /\ db'["assistant"][req.id].version = row.version + 1
           ELSE /\ reqs'[r].status = 409
                /\ db' = db

AssistantVersionGate == [][AssistantGateStep]_vars

(***************************************************************************)
(* Properties of the lock map of KeyedMutex, checked under Spec.           *)
(***************************************************************************)
\* Call c completes in this step.
Completes(c) == calls[c].pc # "done" /\ calls'[c].pc = "done"

\* No call of c's key was registered after c.
NewestOfKey(c) == ~\E d \in CallIds : d > c /\ SameKey(c, d)

Quiescent == \A c \in CallIds : ~Outstanding(c)

\* C16: the step in which a call completes removes the entry of its key
\* when no call was registered on the key after it; and whenever every call
\* made so far has completed, by value or by failure, no key of any
\* instance has an entry and getActiveLocksCount is 0.
CleanupStep ==
  \A c \in CallIds :
    (Completes(c) /\ NewestOfKey(c)) =>
      locks'[calls[c].mutex][calls[c].key] = NoLock

QuiescentMapEmpty ==
  Quiescent =>
    /\ locks = EmptyLocks
    /\ \A m \in Mutexes : getActiveLocksCount(m) = 0

LockMapCleanup == []QuiescentMapEmpty /\ [][CleanupStep]_vars

\* As many calls as the bound allows, over both keys, one of them failed,
\* all completed.
LockMapCleanupWitness ==
  /\ Len(calls) = MaxCalls /\ Quiescent
  /\ {calls[c].key : c \in CallIds} = Keys
  /\ \E c \in CallIds : Failed(c)
  /\ \E c, d \in CallIds : c < d /\ SameKey(c, d)
  /\ \A m \in Mutexes : getActiveLocksCount(m) = 0

\* The calls of run on (m, key) that have not completed.
OutstandingOn(m, key) ==
  {c \in CallIds : calls[c].mutex = m /\ calls[c].key = key /\ Outstanding(c)}

\* C17: in every state isLocked(key) is true exactly when some call of run
\* on the key has not completed, be it waiting for its slot or executing:
\* true from the step that enters run, false before any call and after the
\* last outstanding call on the key has completed.
IsLockedExact ==
  \A m \in Mutexes, k \in Keys :
    isLocked(m, k) <=> OutstandingOn(m, k) # {}

\* A key that was locked by two calls, the first completed and the second
\* still waiting to resume, while the other key, used and released before,
\* is not locked.
IsLockedExactWitness ==
  \E c, d, e \in CallIds :
    /\ c < d /\ d < e
    /\ ~SameKey(c, d) /\ SameKey(d, e)
    /\ calls[c].pc = "done" /\ calls[d].pc = "done"
    /\ calls[e].pc = "awaitLock"
    /\ isLocked(calls[e].mutex, calls[e].key)
    /\ ~isLocked(calls[c].mutex, calls[c].key)

\* C18: in every state getActiveLocksCount is the number of keys with at
\* least one call of run not completed, however many calls those keys have.
ActiveLocksCountExact ==
  \A m \in Mutexes :
    getActiveLocksCount(m) =
      Cardinality({k \in Keys : OutstandingOn(m, k) # {}})

\* Two calls outstanding on one key and one on the other: the count is 2.
ActiveLocksCountExactWitness ==
  \E m \in Mutexes, k1, k2 \in Keys :
    /\ k1 # k2
    /\ Cardinality(OutstandingOn(m, k1)) = 2
    /\ Cardinality(OutstandingOn(m, k2)) = 1
    /\ getActiveLocksCount(m) = 2

\* C26: the step in which a call completes removes the entry of its key
\* when that entry is the call's own slot and otherwise leaves it as it is;
\* and in every state a key with a call not completed has an entry, which
\* is the slot of the last of those calls to have been registered.
OwnSlotOnlyStep ==
  \A c \in CallIds :
    Completes(c) =>
      LET old == locks[calls[c].mutex][calls[c].key]
          new == locks'[calls[c].mutex][calls[c].key]
      IN new = IF old = c THEN NoLock ELSE old

EntryIsNewestOutstanding ==
  \A m \in Mutexes, k \in Keys :
    OutstandingOn(m, k) # {} =>
      /\ locks[m][k] \in OutstandingOn(m, k)
      /\ \A c \in OutstandingOn(m, k) : c <= locks[m][k]

RaceFreeCleanup == []EntryIsNewestOutstanding /\ [][OwnSlotOnlyStep]_vars

\* A call has exited while two newer calls of its key were registered: the
\* entry is the slot of the newest, which waits for the one before it.
RaceFreeCleanupWitness ==
  \E c, d, e \in CallIds :
    /\ c < d /\ d < e /\ SameKey(c, d) /\ SameKey(d, e)
    /\ calls[c].pc = "done"
    /\ Outstanding(d) /\ calls[e].pc = "awaitLock"
    /\ locks[calls[c].mutex][calls[c].key] = e
    /\ calls[e].currentLock = d

\* C27: the step that enters run reads the entry of the key and installs
\* the new slot at once: the new call waits for the slot of the newest call
\* of its key not yet completed, or for nothing when there is none, and the
\* entry becomes its own slot.  So no two calls wait for the same slot, and
\* a call waits for the call registered just before it on its key.
EnterStep ==
  Len(calls') = Len(calls) + 1 =>
    LET d == Len(calls')
        m == calls'[d].mutex
        k == calls'[d].key
    IN /\ locks'[m][k] = d
       /\ calls'[d].currentLock =
            IF OutstandingOn(m, k) = {} THEN ResolvedPromise
            ELSE CHOOSE c \in OutstandingOn(m, k) : \A e \in OutstandingOn(m, k) : e <= c
       /\ \A c \in CallIds : calls'[c] = calls[c]

LinearChain ==
  \A c, d \in CallIds :
    /\ (c # d /\ calls[c].currentLock = calls[d].currentLock) =>
         calls[c].currentLock = ResolvedPromise
    /\ calls[d].currentLock = c =>
         /\ c < d /\ SameKey(c, d)
         /\ ~\E e \in CallIds : c < e /\ e < d /\ SameKey(c, e)

AtomicEnter == []LinearChain /\ [][EnterStep]_vars

\* As many calls as the bound allows entered on one key before any began:
\* each waits for the one before it.
AtomicEnterWitness ==
  /\ Len(calls) = MaxCalls
  /\ \A c \in CallIds : SameKey(1, c) /\ calls[c].pc = "awaitLock"
  /\ calls[1].currentLock = ResolvedPromise
  /\ \A c \in CallIds : c > 1 => calls[c].currentLock = c - 1

\* How far a call of run has got.
PcRank(pc) ==
  CASE pc = "awaitLock" -> 0 [] pc = "inFn" -> 1 [] pc = "fnSettled" -> 2
    [] OTHER -> 3

\* The number of times the operation of call c has been invoked.
Invocations(c) == Cardinality({i \in 1..Len(started) : started[i] = c})

\* C29: a call never goes back: it waits, its operation is invoked, settles,
\* and the call completes.  The operation is invoked in a step before which
\* the slot the call waits for was resolved, and has been invoked once in
\* every later state, also after a failure.  A slot is resolved exactly when
\* its call has completed, in the step in which the call, its operation
\* settled, completes.
InvocationStep ==
  \A c \in CallIds :
    /\ PcRank(calls'[c].pc) \in {PcRank(calls[c].pc), PcRank(calls[c].pc) + 1}
    /\ (calls[c].pc = "awaitLock" /\ calls'[c].pc = "inFn") =>
         /\ IsResolved(calls[c].currentLock)
         /\ started' = Append(started, c)
    /\ (c \in resolved' /\ c \notin resolved) =>
         (calls[c].pc = "fnSettled" /\ calls'[c].pc = "done")
    /\ calls[c].pc = "done" => calls'[c] = calls[c]

InvokedOnce ==
  /\ \A c \in CallIds :
       /\ Invocations(c) = IF calls[c].pc = "awaitLock" THEN 0 ELSE 1
       /\ c \in resolved <=> calls[c].pc = "done"
  /\ resolved \subseteq CallIds

ExactlyOnce == []InvokedOnce /\ [][InvocationStep]_vars

\* A call failed and completed, invoked once; the call queued behind it was
\* then invoked, and nothing else was.
ExactlyOnceWitness ==
  \E c, d \in CallIds :
    /\ calls[d].currentLock = c
    /\ Failed(c) /\ c \in resolved
    /\ calls[d].pc = "inFn"
    /\ started = <<c, d>>

\* The call that takes this step, entering run or moving on.
Steps(c) == c \notin CallIds \/ calls'[c] # calls[c]

\* C30: an entry of the lock map changes only in a step in which a call of
\* that very instance and key enters run or completes; a call of another key
\* changes it at no point between its enter and its exit, and the two
\* read-only methods change nothing.
CrossKeyFrameStep ==
  /\ \A m \in Mutexes, k \in Keys :
       locks'[m][k] # locks[m][k] =>
         \E c \in 1..Len(calls') :
           /\ calls'[c].mutex = m /\ calls'[c].key = k
           /\ c \notin CallIds \/ Completes(c)
  /\ \A c \in 1..Len(calls') :
       Steps(c) =>
         \A m \in Mutexes, k \in Keys :
           (m # calls'[c].mutex \/ k # calls'[c].key) => locks'[m][k] = locks[m][k]

CrossKeyFrame == [][CrossKeyFrameStep]_vars

\* A call on one key has entered, run and exited while the entry of the
\* other key was the slot of a call still waiting behind its predecessor.
CrossKeyFrameWitness ==
  \E c, d, e \in CallIds :
    /\ c < d /\ d < e
    /\ SameKey(c, d) /\ ~SameKey(d, e)
    /\ Executing(c) /\ calls[d].pc = "awaitLock"
    /\ calls[e].pc = "done"
    /\ locks[calls[d].mutex][calls[d].key] = d
    /\ locks[calls[e].mutex][calls[e].key] = NoLock

(***************************************************************************)
(* Properties of the task updates, checked under TaskSpec.                 *)
(***************************************************************************)
\* What task update r writes: the data of its update statement.
Written(r) == calls[reqs[r].call].fn.updateData

\* C19: two task updates of one id, the only writes to the task, that set
\* a common field, r1 registered in taskMutex before r2: once both have
\* answered, both answered 200, r1 began before r2, every field r2 wrote
\* holds r2's value, every field only r1 wrote holds r1's value, and the
\* version is the initial one plus two.
SameFieldPair(r1, r2) ==
  /\ r1 < r2 /\ r1 \in TaskUpdates /\ r2 \in TaskUpdates
  /\ reqs[r1].id = reqs[r2].id
  /\ DOMAIN Written(r1) \cap DOMAIN Written(r2) # {}
  /\ reqs[r1].pc = "done" /\ reqs[r2].pc = "done"
  /\ TaskUpdates = {r1, r2} /\ NoTaskDelete

LastCommittedWins ==
  \A r1, r2 \in ReqIds :
    SameFieldPair(r1, r2) =>
      LET row == TaskRow(reqs[r1].id) IN
      /\ reqs[r1].status = 200 /\ reqs[r2].status = 200
      /\ StartedBefore(reqs[r1].call, reqs[r2].call)
      /\ row # NoRow
      /\ \A k \in DOMAIN Written(r2) : row[k] = Written(r2)[k]
      /\ \A k \in DOMAIN Written(r1) \ DOMAIN Written(r2) : row[k] = Written(r1)[k]
      /\ row.version = InitVersion + 2

\* Status Done and priority medium registered first, status In Progress
\* queued behind it before it began: the status is the later one's, the
\* priority the earlier one's.
LastCommittedWinsWitness ==
  \E r1, r2 \in ReqIds :
    /\ SameFieldPair(r1, r2)
    /\ reqs[r1].body = [status |-> "Done", priority |-> "medium"]
    /\ reqs[r2].body = [status |-> "In Progress"]
    /\ calls[reqs[r2].call].currentLock = reqs[r1].call
    /\ TaskRow(reqs[r1].id).status = "IN_PROGRESS"
    /\ TaskRow(reqs[r1].id).priority = "MEDIUM"

\* The step is the successful update statement of task update call c.
TaskUpdateSucceeds(c) ==
  /\ calls[c].fn.kind = "taskUpdate"
  /\ calls[c].pc = "inFn" /\ calls[c].at = "update"
  /\ calls'[c].outcome.state = "fulfilled"

\* The step changes, of the row of call c, at most the fields in touched and
\* the version, which it raises by one, and no other row of the store.
ChangesOnly(c, touched) ==
  LET id == calls[c].fn.id
      row == db["task"][id]
      new == db'["task"][id]
  IN /\ row # NoRow /\ new # NoRow
     /\ DOMAIN new = DOMAIN row
     /\ \A k \in DOMAIN row \ (touched \cup {"version"}) : new[k] = row[k]
     /\ new.version = row.version + 1
     /\ \A t \in Tables : \A i \in IdsOf(t) :
          (t # "task" \/ i # id) => db'[t][i] = db[t][i]

\* C20 as stated: a successful task update changes only the fields named in
\* the request body and the version.
PatchFrameStep ==
  \A c \in CallIds :
    TaskUpdateSucceeds(c) =>
      ChangesOnly(c, DOMAIN reqs[calls[c].fn.req].body)

PatchFrame == [][PatchFrameStep]_vars

\* The fields a request body makes the update write: those it names, and
\* the assignee when it names an assistantId.
Touched(body) ==
  DOMAIN body \cup (IF "assistantId" \in DOMAIN body THEN {"assignee"} ELSE {})

\* C20, amended: a successful task update changes only the fields named in
\* the request body, the assignee when the body names an assistantId (it
\* becomes that assistant's name), and the version; every other field is as
\* in the row findUnique read, which no step changes between that read and
\* the update other than by deleting it.
PatchFrameWithAssigneeStep ==
  \A c \in CallIds :
    LET body == reqs[calls[c].fn.req].body IN
    TaskUpdateSucceeds(c) =>
      /\ ChangesOnly(c, Touched(body))
      /\ "assistantId" \in DOMAIN body =>
           db'["task"][calls[c].fn.id].assignee = AssistantName[body.assistantId]

ReadStableStep ==
  \A c \in CallIds :
    (/\ calls[c].fn.kind = "taskUpdate"
     /\ calls[c].pc = "inFn" /\ calls[c].at = "update"
     /\ ~TaskUpdateSucceeds(c)) =>
      \/ db'["task"][calls[c].fn.id] = db["task"][calls[c].fn.id]
      \/ db'["task"][calls[c].fn.id] = NoRow

PatchFrameWithAssignee ==
  [][PatchFrameWithAssigneeStep /\ ReadStableStep]_vars

\* An update naming only assistantId answered 200 after a status update:
\* assistantId and assignee are the new assistant's, the status is the one
\* the earlier update wrote, the title the initial one.
PatchFrameWithAssigneeWitness ==
  \E r1, r2 \in ReqIds :
    /\ r1 < r2 /\ r1 \in TaskUpdates /\ r2 \in TaskUpdates
    /\ reqs[r1].body = [status |-> "In Progress"] /\ reqs[r1].status = 200
    /\ reqs[r2].body = [assistantId |-> "asst-2"] /\ reqs[r2].status = 200
    /\ TaskRow(reqs[r2].id) =
         [InitRow("task") EXCEPT !.version = InitVersion + 2,
            !.status = "IN_PROGRESS", !.assistantId = "asst-2", !.assignee = "Bob"]

\* Task update call c threw TASK_NOT_FOUND.
NotFound(c) ==
  calls[c].fn.kind = "taskUpdate" /\ calls[c].outcome = Rejected("TASK_NOT_FOUND")

\* C21: a task update whose findUnique runs while the task has no row
\* throws TASK_NOT_FOUND in that step and writes nothing; the request then
\* answers 404, its slot is resolved so that the call queued behind it can
\* begin, and no step brings the row into being.
MissingTaskStep ==
  /\ \A c \in CallIds :
       (/\ calls[c].fn.kind = "taskUpdate"
        /\ calls[c].pc = "inFn" /\ calls[c].at = "entry"
        /\ TaskRow(calls[c].fn.id) = NoRow
        /\ calls'[c] # calls[c]) =>
         /\ calls'[c].outcome = Rejected("TASK_NOT_FOUND")
         /\ db' = db
  /\ \A id \in TaskIds : TaskRow(id) = NoRow => db'["task"][id] = NoRow

MissingTaskAnswer ==
  \A c \in CallIds :
    (NotFound(c) /\ calls[c].pc = "done") =>
      /\ reqs[calls[c].fn.req].status = 404
      /\ TaskRow(calls[c].fn.id) = NoRow
      /\ IsResolved(c)
      /\ \A d \in CallIds :
           (calls[d].pc = "awaitLock" /\ calls[d].currentLock = c) => CanStart(d)

MissingTask == []MissingTaskAnswer /\ [][MissingTaskStep]_vars

\* After a delete, an update found no task and answered 404, and the update
\* queued behind it began and answered 404 as well.
MissingTaskWitness ==
  \E r1, r2 \in TaskUpdates :
    /\ r1 < r2
    /\ calls[reqs[r2].call].currentLock = reqs[r1].call
    /\ NotFound(reqs[r1].call) /\ reqs[r1].status = 404
    /\ NotFound(reqs[r2].call) /\ reqs[r2].status = 404
    /\ TaskRow(reqs[r1].id) = NoRow

\* C22: an update that reaches its decisive statement after the row has been
\* deleted answers 404 and leaves the row absent: a strict update answering
\* in a step that finds no row answers 404, a task update settling in a
\* step that finds no row is rejected, and a rejected task update has
\* answered 404 once it is done.
DeletedTargetStep ==
  /\ \A r \in ReqIds :
       (StrictAnswers(r) /\ db[reqs[r].table][reqs[r].id] = NoRow) =>
         /\ reqs'[r].status = 404
         /\ db' = db
  /\ \A c \in CallIds :
       (/\ calls[c].fn.kind = "taskUpdate" /\ calls[c].pc = "inFn"
        /\ calls'[c].pc = "fnSettled"
        /\ TaskRow(calls[c].fn.id) = NoRow) =>
         /\ calls'[c].outcome.state = "rejected"
         /\ db' = db

RejectedTaskIs404 ==
  \A r \in TaskUpdates :
    (reqs[r].pc = "done" /\ calls[reqs[r].call].result.state = "rejected") =>
      reqs[r].status = 404

DeletedTarget == []RejectedTaskIs404 /\ [][DeletedTargetStep]_vars

(***************************************************************************)
(* Properties of the two instances, checked under InstancesSpec.           *)
(***************************************************************************)
\* C24: the entries of an instance's map and the slot a call waits for are
\* slots of calls made on that very instance and key; a waiting call can
\* begin exactly when the earlier calls on its instance and key are done,
\* whatever calls of the same key the other instance holds; and a step of a
\* call leaves the map of the other instance as it was.
OwnInstanceOnly ==
  /\ \A m \in Mutexes, k \in Keys :
       locks[m][k] # NoLock =>
         /\ locks[m][k] \in CallIds
         /\ calls[locks[m][k]].mutex = m /\ calls[locks[m][k]].key = k
  /\ \A c \in CallIds :
       /\ calls[c].currentLock # ResolvedPromise =>
            /\ calls[c].currentLock < c
            /\ SameKey(c, calls[c].currentLock)
       /\ calls[c].pc = "awaitLock" => (CanStart(c) <=> EarlierSameKeyDone(c))

OtherInstanceUntouchedStep ==
  \A c \in 1..Len(calls') :
    (c \notin CallIds \/ calls'[c] # calls[c]) =>
      \A m \in Mutexes \ {calls'[c].mutex} : locks'[m] = locks[m]

InstancesIndependent == []OwnInstanceOnly /\ [][OtherInstanceUntouchedStep]_vars

\* A call on taskMutex and a call on eventMutex with the same key, the second
\* registered while the first was there, both executing.
InstancesIndependentWitness ==
  \E c, d \in CallIds :
    /\ c < d
    /\ calls[c].mutex = "taskMutex" /\ calls[d].mutex = "eventMutex"
    /\ calls[c].key = calls[d].key
    /\ Executing(c) /\ Executing(d)
    /\ calls[d].currentLock = ResolvedPromise

(***************************************************************************)
(* Progress of KeyedMutex, checked under StalledSpec and ProgressSpec.     *)
(***************************************************************************)
Registered(c) == c \in CallIds
Done(c) == c \in CallIds /\ calls[c].pc = "done"
OnKey(c, k) == c \in CallIds /\ calls[c].key = k

\* C23: a waiting call begins only in a step before which every call
\* registered earlier on its key has completed, and a slot is resolved only
\* by the step in which its own call completes; so when the operation of a
\* call never settles, no later call of the key ever begins.  Calls of
\* the other keys, whose operations settle, all complete.
BeginsOnlyAfterHolderStep ==
  /\ \A d \in CallIds :
       (calls[d].pc = "awaitLock" /\ calls'[d].pc # "awaitLock") =>
         \A c \in CallIds : (c < d /\ SameKey(c, d)) => calls[c].pc = "done"
  /\ \A c \in resolved' \ resolved :
       c \in CallIds /\ calls[c].pc = "fnSettled" /\ calls'[c].pc = "done"

NeverBeginsBehindStalled ==
  \A c, d \in 1..MaxLiveCalls :
    c < d =>
      (<>[](Registered(c) /\ calls[c].pc = "inFn") =>
         [](Registered(d) /\ SameKey(c, d) => calls[d].pc = "awaitLock"))

OtherKeysComplete ==
  \A c \in 1..MaxLiveCalls :
    (Registered(c) /\ calls[c].key # StalledKey) ~> Done(c)

StalledHolder ==
  /\ [][BeginsOnlyAfterHolderStep]_vars
  /\ NeverBeginsBehindStalled
  /\ OtherKeysComplete

\* The holder of StalledKey has not settled, a later call of that key is
\* waiting behind it, and a call of another key, registered after both, has
\* completed.
StalledHolderWitness ==
  \E c, d, e \in CallIds :
    /\ c < d /\ d < e
    /\ calls[c].key = StalledKey /\ calls[c].pc = "inFn"
    /\ calls[d].key = StalledKey /\ calls[d].currentLock = c
    /\ calls[d].pc = "awaitLock"
    /\ calls[e].key # StalledKey /\ calls[e].pc = "done"

\* C28: if every operation passed to run settles, every call of run begins
\* its operation and completes, whatever the keys, the order and the
\* outcomes of the calls.
Progress ==
  \A c \in 1..MaxLiveCalls :
    /\ Registered(c) ~> (Registered(c) /\ HasStarted(c))
    /\ Registered(c) ~> Done(c)

\* A queue of as many calls as the bound allows on one key has drained, the
\* first of them having failed.
ProgressWitness ==
  /\ Len(calls) = MaxLiveCalls
  /\ \A c \in CallIds : Done(c) /\ SameKey(1, c)
  /\ \A c \in CallIds : c > 1 => calls[c].currentLock = c - 1
  /\ calls[1].result.state = "rejected"

(***************************************************************************)
(* Properties of a restart, checked under CrashSpec.                       *)
(***************************************************************************)
\* The task updates whose update statement was committed, answered or not.
Committed(id) ==
  {c \in CallIds : /\ calls[c].fn.kind = "taskUpdate" /\ calls[c].fn.id = id
                   /\ calls[c].outcome.state = "fulfilled"}

Restarted == \E r \in ReqIds : reqs[r].route = "RESTART"

\* C25: with restarts at any point, a stored task's version is the initial
\* version plus the number of update statements committed so far; a restart
\* changes no row; and after a restart an update still finds the stored row,
\* compares its version with the one the client sent, and raises it by one.
VersionCountsCommits ==
  \A id \in TaskIds :
    TaskRow(id) # NoRow =>
      TaskRow(id).version = InitVersion + Cardinality(Committed(id))

RestartStep ==
  /\ (Len(reqs') = Len(reqs) + 1 /\ reqs'[Len(reqs')].route = "RESTART") =>
       /\ db' = db
       /\ \A m \in Mutexes : getActiveLocksCount(m)' = 0
  /\ \A c \in CallIds :
       (/\ calls[c].fn.kind = "taskUpdate" /\ calls[c].pc = "inFn"
        /\ calls[c].at = "entry" /\ calls'[c].at = "update") =>
         reqs'[calls[c].fn.req].merged =
           (TaskRow(calls[c].fn.id).version > calls[c].fn.userVersion)

CrashConsistent == []VersionCountsCommits /\ [][RestartStep /\ VersionStep]_vars

\* A restart lost an update that had committed but not answered; the stale
\* update sent after the restart was merged and answered with the initial
\* version plus two.
CrashConsistentWitness ==
  \E r1, r2, r3 \in ReqIds :
    /\ r1 < r2 /\ r2 < r3
    /\ r1 \in TaskUpdates /\ reqs[r1].pc = "lost"
    /\ calls[reqs[r1].call].outcome.state = "fulfilled"
    /\ reqs[r2].route = "RESTART"
    /\ r3 \in TaskUpdates /\ reqs[r3].version = 0 /\ reqs[r3].merged
    /\ reqs[r3].status = 200
    /\ reqs[r3].data.version = InitVersion + 2

(***************************************************************************)
(* KeyedMutex against a scheduler that keeps, for every key, an explicit   *)
(* queue of the calls not yet completed and runs only its head.  The queue *)
(* of a key is read off the calls: those of the key not completed, in the  *)
(* order of registration.  Checked under Spec.                             *)
(***************************************************************************)
\* The calls of a mutex on a key that have not completed, oldest first.
InOrder(m, k) ==
  SelectSeq([c \in CallIds |-> c],
            LAMBDA c : calls[c].mutex = m /\ calls[c].key = k /\ Outstanding(c))

\* The abstract scheduler's state: the queues, the operations in flight and
\* the order in which operations were started.
AbsQueue == [m \in Mutexes |-> [k \in Keys |-> InOrder(m, k)]]
AbsRunning == {c \in CallIds : calls[c].pc \in {"inFn", "fnSettled"}}
AbsStarted == started
AbsCount == Len(calls)
absVars == <<AbsQueue, AbsRunning, AbsStarted, AbsCount>>

AbsInit ==
  /\ AbsQueue = [m \in Mutexes |-> [k \in Keys |-> <<>>]]
  /\ AbsRunning = {} /\ AbsStarted = <<>> /\ AbsCount = 0

\* A call arrives and is put at the tail of its key's queue.
AbsEnqueue(m, k) ==
  /\ AbsCount' = AbsCount + 1
  /\ AbsQueue' = [AbsQueue EXCEPT ![m][k] = Append(@, AbsCount + 1)]
  /\ AbsRunning' = AbsRunning /\ AbsStarted' = AbsStarted

\* The head of a queue, not yet running, is started.
AbsStart(m, k) ==
  /\ AbsQueue[m][k] # <<>>
  /\ Head(AbsQueue[m][k]) \notin AbsRunning
  /\ AbsRunning' = AbsRunning \cup {Head(AbsQueue[m][k])}
  /\ AbsStarted' = Append(AbsStarted, Head(AbsQueue[m][k]))
  /\ AbsQueue' = AbsQueue /\ AbsCount' = AbsCount

\* The running head of a queue finishes and leaves the queue.
AbsFinish(m, k) ==
  /\ AbsQueue[m][k] # <<>>
  /\ Head(AbsQueue[m][k]) \in AbsRunning
  /\ AbsRunning' = AbsRunning \ {Head(AbsQueue[m][k])}
  /\ AbsQueue' = [AbsQueue EXCEPT ![m][k] = Tail(@)]
  /\ AbsStarted' = AbsStarted /\ AbsCount' = AbsCount

AbsNext ==
  \E m \in Mutexes, k \in Keys : AbsEnqueue(m, k) \/ AbsStart(m, k) \/ AbsFinish(m, k)

\* The concrete guard of a start is the abstract one: a waiting call can
\* resume exactly when it is the head of its key's queue; and the lock map
\* holds the tail of every queue.
GuardsAgree ==
  /\ \A c \in CallIds :
       calls[c].pc = "awaitLock" =>
         (CanStart(c) <=> Head(AbsQueue[calls[c].mutex][calls[c].key]) = c)
  /\ \A m \in Mutexes, k \in Keys :
       locks[m][k] = IF AbsQueue[m][k] = <<>> THEN NoLock
                     ELSE AbsQueue[m][k][Len(AbsQueue[m][k])]
  /\ \A m \in Mutexes, k \in Keys :
       \A i \in 1..Len(AbsQueue[m][k]) :
         AbsQueue[m][k][i] \in AbsRunning => i = 1

\* C31: every behaviour of KeyedMutex is a behaviour of the queue scheduler:
\* every step enqueues a call at the tail of its key's queue, starts the
\* head of a queue, removes a running head, or changes nothing of the
\* scheduler's state; the operations in flight and the order of the starts
\* are the scheduler's; and a call can start exactly when the scheduler
\* could start it.
RefinesQueueScheduler ==
  /\ AbsInit
  /\ [][AbsNext]_absVars
  /\ []GuardsAgree

\* Two queues at once: one key with a running head, settled, and a call
\* waiting behind it, the other key with its only call running.
RefinesQueueSchedulerWitness ==
  \E m \in Mutexes, k1, k2 \in Keys :
    /\ k1 # k2
    /\ Len(AbsQueue[m][k1]) = 2
    /\ calls[Head(AbsQueue[m][k1])].pc = "fnSettled"
    /\ Len(AbsQueue[m][k2]) = 1
    /\ Head(AbsQueue[m][k2]) \in AbsRunning
    /\ Len(AbsStarted) = 2

(***************************************************************************)
(* The version a task update claims, checked under TaskSpec.               *)
(***************************************************************************)
\* The versions a client may send.
ClaimedVersions == 0..(InitVersion + MaxReqs)

\* C32: whatever version a task update claims, each of its steps does what
\* it would have done with any other claimed version: findUnique goes on to
\* the update exactly when the row exists, the update statement stores and
\* returns the same row, and the answer is the same but for the request's
\* own version field.  Only the merged mark follows the claimed version.
VersionBlindStep ==
  \A c \in CallIds :
    LET fn == calls[c].fn
        row == TaskRow(fn.id)
    IN (calls[c].fn.kind = "taskUpdate" /\ calls'[c] # calls[c]) =>
         /\ (calls[c].pc = "inFn" /\ calls[c].at = "entry") =>
              /\ calls'[c].at = "update" <=> row # NoRow
              /\ row # NoRow =>
                   reqs'[fn.req].merged = (row.version > fn.userVersion)
              /\ [reqs' EXCEPT ![fn.req].merged = FALSE] =
                   [reqs EXCEPT ![fn.req].merged = FALSE]
         /\ (calls[c].pc = "inFn" /\ calls[c].at = "update" /\ row # NoRow) =>
              \A v \in ClaimedVersions :
                /\ db'["task"][fn.id] = UpdateRow(row, fn.updateData, v)
                /\ calls'[c].outcome = Fulfilled(UpdateRow(row, fn.updateData, v))
         /\ calls[c].pc = "fnSettled" =>
              \A v \in ClaimedVersions :
                reqs'[fn.req] =
                  [TaskResponse([reqs[fn.req] EXCEPT !.version = v], calls'[c].result)
                     EXCEPT !.version = fn.userVersion]

VersionBlind == [][VersionBlindStep]_vars

\* Three updates answered 200: the first claimed a version above the stored
\* one, the second the stored one, the third one below it, which alone was
\* marked as merged.
VersionBlindWitness ==
  /\ Len(reqs) = 3 /\ TaskUpdates = {1, 2, 3}
  /\ \A r \in ReqIds : reqs[r].status = 200 /\ reqs[r].data.version = InitVersion + r
  /\ reqs[1].version = InitVersion + 1 /\ ~reqs[1].merged
  /\ reqs[2].version = InitVersion + 1 /\ ~reqs[2].merged
  /\ reqs[3].version = 0 /\ reqs[3].merged

====
